---- MODULE Spec2Model ----
(***************************************************************************)
(* A model of the WDMSTool scripts:                                        *)
(*   ms_data_process.py   process_phot_files, evaluate_candidates,         *)
(*                        plot_flux_res                                    *)
(*   wdms_data_process.py clean_photometry, dedup_theoretical, main        *)
(*   wd_ascii_vosa.py     build_entries, write_batches                     *)
(*   ms_ascii_vosa.py     ms_ascii_noUV_VOSA, read_catalog, main           *)
(* The scripts are independent programs, so each has a specification of    *)
(* its own (SpecClassify, SpecEvaluate, ...) over its own variables; the   *)
(* variables of the other scripts stay at their initial value.             *)
(*                                                                         *)
(* Row and line indices are the 0-based indices of the Python code; a      *)
(* sequence s holds index i at s[i + 1].                                   *)
(***************************************************************************)
EXTENDS Integers, Sequences, FiniteSets, TLC

VARIABLES
    \* ---- one photometry table through evaluate_candidates, plot_flux_res
    \*      and build_entries
    data,            \* the table read from <obj>.bfit.phot.dat
    row,             \* results_df[results_df["Object"] == obj], its Vgfb cell
    good,            \* evaluate_candidates: the object's classification
    std_rows,        \* evaluate_candidates: rows behind np.std(...)
    plot_rows,       \* plot_flux_res: rows behind std_res (the sigma lines)
    entry_rows,      \* build_entries: exported rows of index >= 2
    cpc,
    \* ---- evaluate_candidates on a base directory
    has_results,     \* a results/bestfitp.dat exists under base_dir
    phot_files,      \* glob of **/objects/*/bestfitp/*.bfit.phot.dat
    classification,  \* list of (obj_dir, is_good)
    good_count,
    bad_count,
    gc_objects,      \* folders under <good_count>_gc/objects
    bc_objects,      \* folders under <bad_count>_bc/objects
    copied,          \* entries of classification the copy loop has done
    epc,
    \* ---- ms_ascii_vosa.py: main and ms_ascii_noUV_VOSA
    entry,           \* "main" (run as a script) or "call" (the function called)
    catalog_exists,  \* args.catalog.exists()
    catalog_ext,     \* args.catalog.suffix.lower()
    catalog,         \* the rows of the catalog file
    chunk_arg,       \* args.chunk
    catalog_read,    \* read_catalog has loaded the file
    df,              \* the data frame handed to ms_ascii_noUV_VOSA
    chunk_size,      \* its chunk_size parameter
    outdir_made,     \* output_dir.mkdir has run
    out_files,       \* the files of output_dir: <<start, end>> -> lines
    start,           \* the loop variable of line 63
    xpc,
    \* ---- wd_ascii_vosa.write_batches
    entries,         \* the residual entries, one per exported row
    chunk,           \* objects per file
    unique_objs,     \* df["object"].unique()
    batch_files,     \* the files of out_dir: idx -> rows ("<idx>.txt")
    idx,             \* the files written so far
    wpc,
    \* ---- wdms_data_process.dedup_theoretical
    os_name,         \* "posix" or "nt": os.rename onto an existing file
    listing,         \* os.listdir(spec_dir), in the order it returns
    spec_dir,        \* the directory: file name -> content
    unique,          \* the groups: [cleaned, originals], in insertion order
    scanned,         \* names of the listing the first loop has seen
    grouped,         \* groups the second loop has done
    dpc,
    \* ---- the photometry cleaners, applied to one file
    cleaner,         \* "process_phot_files" or "clean_photometry"
    phot_text,       \* the characters of the .bfit.phot.dat file
    orig_text,       \* the file before the first application
    pass1_text,      \* the file after the first application
    passes,          \* applications so far
    rewritten,       \* the last application wrote the file
    lpc,
    \* ---- wdms_data_process.py, the module and its main
    run_as,          \* "script" (python wdms_data_process.py) or "import"
    defined,         \* the functions bound in the module so far
    mpc,             \* the module's position
    main_pc,         \* main's position
    base_is_dir,     \* base.is_dir()
    spec_dirs_ok,    \* both spectra folders exist
    has_bestfitp,    \* a results/bestfitp.dat exists under base
    n_csv,           \* CSV files in the MS folder
    merged_rows,     \* the merged objects: Object, and whether plotting works
    steps,           \* the steps main has completed, in order
    outputs,         \* what main has created under result_dir
    plots,           \* the merged rows with an <obj>_SED.png
    plotted,         \* rows plot_seds has gone through
    report           \* the report lines printed at the end

varsClassify == <<data, row, good, std_rows, plot_rows, entry_rows, cpc>>

varsEvaluate == <<has_results, phot_files, classification, good_count,
                  bad_count, gc_objects, bc_objects, copied, epc>>

varsExport == <<entry, catalog_exists, catalog_ext, catalog, chunk_arg,
                catalog_read, df, chunk_size, outdir_made, out_files, start,
                xpc>>

varsBatches == <<entries, chunk, unique_objs, batch_files, idx, wpc>>

varsDedup == <<os_name, listing, spec_dir, unique, scanned, grouped, dpc>>

varsClean == <<cleaner, phot_text, orig_text, pass1_text, passes, rewritten,
               lpc>>

varsWdms == <<run_as, defined, mpc, main_pc, base_is_dir, spec_dirs_ok,
              has_bestfitp, n_csv, merged_rows, steps, outputs, plots,
              plotted, report>>

\* what the actions of one script leave alone: the other scripts' variables
notClassify == <<varsEvaluate, varsExport, varsBatches, varsDedup, varsClean,
                 varsWdms>>
notEvaluate == <<varsClassify, varsExport, varsBatches, varsDedup, varsClean,
                 varsWdms>>
notExport == <<varsClassify, varsEvaluate, varsBatches, varsDedup, varsClean,
               varsWdms>>
notBatches == <<varsClassify, varsEvaluate, varsExport, varsDedup, varsClean,
                varsWdms>>
notDedup == <<varsClassify, varsEvaluate, varsExport, varsBatches, varsClean,
              varsWdms>>
notClean == <<varsClassify, varsEvaluate, varsExport, varsBatches, varsDedup,
              varsWdms>>
notWdms == <<varsClassify, varsEvaluate, varsExport, varsBatches, varsDedup,
             varsClean>>

vars == <<varsClassify, varsEvaluate, varsExport, varsBatches, varsDedup,
          varsClean, varsWdms>>

(***************************************************************************)
(* Bounds of the model.                                                    *)
(***************************************************************************)
MaxRows == 4         \* rows of a photometry table

(***************************************************************************)
(* Floating point values: NaN, -inf, +inf or the rational n/d (d > 0).     *)
(***************************************************************************)
NaN == [k |-> "nan"]
NInf == [k |-> "ninf"]
PInf == [k |-> "pinf"]
Num(n, d) == [k |-> "num", n |-> n, d |-> d]

IsNum(x) == x.k = "num"
\* pandas notna / dropna: only NaN is missing, an infinity is a value
NotNa(x) == x.k # "nan"

\* a cell of a text column: a number, or the placeholder "---"
Dash == [k |-> "dash"]
Val(n) == [k |-> "val", n |-> n]

\* pd.to_numeric(col, errors="coerce")
ToNumeric(c) == IF c.k = "val" THEN Num(c.n, 1) ELSE NaN

\* col.replace("---", 0).astype(int), on the flag cells "0", "1", "---"
ReplaceDashAsInt(c) == IF c = "1" THEN 1 ELSE 0

\* x - y on floats (x, y are NaN or finite here: parsed flux cells)
Sub(x, y) ==
    IF IsNum(x) /\ IsNum(y) THEN Num(x.n * y.d - y.n * x.d, x.d * y.d) ELSE NaN

\* x / y on floats (numpy semantics: 0/0 = NaN, a/0 = +-inf)
Div(x, y) ==
    IF ~(IsNum(x) /\ IsNum(y)) THEN NaN
    ELSE IF y.n = 0
         THEN (IF x.n = 0 THEN NaN ELSE IF x.n > 0 THEN PInf ELSE NInf)
         ELSE IF y.n > 0 THEN Num(x.n * y.d, x.d * y.n)
              ELSE Num(-(x.n * y.d), -(x.d * y.n))

RECURSIVE SumSeq(_)
SumSeq(s) == IF s = <<>> THEN 0 ELSE Head(s) + SumSeq(Tail(s))

RECURSIVE ProdSeq(_)
ProdSeq(s) == IF s = <<>> THEN 1 ELSE Head(s) * ProdSeq(Tail(s))

\* np.std(xs) of a sequence of floats without NaN: NaN for an empty input
\* (mean of nothing) and for an input holding an infinity (inf - inf);
\* otherwise sqrt(v / w), kept as the pair of integers v >= 0, w > 0.
NpStd(xs) ==
    IF xs = <<>> \/ \E i \in 1..Len(xs) : ~IsNum(xs[i]) THEN NaN
    ELSE LET m == Len(xs)
             D == ProdSeq([i \in 1..m |-> xs[i].d])
             N == [i \in 1..m |-> xs[i].n * (D \div xs[i].d)]
             S1 == SumSeq(N)
             S2 == SumSeq([i \in 1..m |-> N[i] * N[i]])
         IN  [k |-> "sqrt", v |-> m * S2 - S1 * S1, w |-> m * m * D * D]

(***************************************************************************)
(* Photometry tables (<obj>.bfit.phot.dat read by pd.read_csv).            *)
(* A row is [Flux, FluxMod, Fitted, Excess, UpLim, FitExc]: Flux and       *)
(* FluxMod are number cells or "---", the flags are the texts "0", "1" or  *)
(* "---".                                                                  *)
(***************************************************************************)
PhotRow(f, m, fitted, excess, uplim, fitexc) ==
    [Flux |-> f, FluxMod |-> m, Fitted |-> fitted, Excess |-> excess,
     UpLim |-> uplim, FitExc |-> fitexc]

\* the FUV and NUV rows (index 0 and 1); VOSA marks them "nofit"
HeadRows ==
    { PhotRow(fm[1], fm[2], "0", "0", "0", "0") :
        fm \in { <<Val(1), Val(0)>>, <<Val(2), Val(1)>>, <<Val(1), Val(1)>>,
                 <<Val(1), Val(2)>>, <<Dash, Val(1)>>, <<Val(0), Val(1)>> } }

\* the rows from index 2 on
TailRows ==
    { PhotRow(Val(1), Val(1), "1", "0", "0", "0"),
      PhotRow(Val(2), Val(1), "1", "0", "0", "0"),
      PhotRow(Dash,   Val(1), "1", "0", "0", "0"),
      PhotRow(Val(0), Val(0), "1", "0", "0", "0"),
      PhotRow(Val(2), Val(1), "0", "0", "0", "0"),
      PhotRow(Val(2), Val(1), "1", "1", "0", "0"),
      PhotRow(Val(2), Val(1), "1", "0", "1", "0"),
      PhotRow(Val(2), Val(1), "1", "0", "0", "1"),
      PhotRow(Val(2), Val(1), "1", "0", "0", "---") }

Tables ==
    UNION { { h \o t : h \in [1..2 -> HeadRows], t \in [1..n -> TailRows] } :
            n \in 0..(MaxRows - 2) }

\* the row labels of a table, 0-based as in the code
Index(d) == 0..(Len(d) - 1)
At(d, i) == d[i + 1]

\* A column holding a "---" is read as text (dtype object), and a text cell
\* never equals the integer 1 or 0; a column of numbers only is read as int.
ColIsInt(d, col) == \A i \in Index(d) : At(d, i)[col] # "---"
RawEq(d, i, col, v) == ColIsInt(d, col) /\ At(d, i)[col] = v

\* (Flux - FluxMod) / Flux of row i, after pd.to_numeric on both columns
RelResidual(d, i) ==
    LET f == ToNumeric(At(d, i).Flux)
        m == ToNumeric(At(d, i).FluxMod)
    IN  Div(Sub(f, m), f)

\* the members of the set S of row labels, in increasing order
RECURSIVE Ordered(_)
Ordered(S) ==
    IF S = {} THEN <<>>
    ELSE LET i == CHOOSE x \in S : \A y \in S : x <= y
         IN  <<i>> \o Ordered(S \ {i})

SigmaFactor == 3
VgfbCutoff == 15

\* x >= SigmaFactor * s for a residual x and s = np.std(...): a comparison
\* with NaN is False
GeSigma(x, s) ==
    IF x.k = "nan" \/ s.k = "nan" THEN FALSE
    ELSE IF x.k = "pinf" THEN TRUE
    ELSE IF x.k = "ninf" THEN FALSE
    ELSE x.n >= 0
         /\ x.n * x.n * s.w >= SigmaFactor * SigmaFactor * s.v * x.d * x.d

\* evaluate_candidates, lines 78-84: the Residual column
EvalFilter(d, i) ==
    RawEq(d, i, "Fitted", "1") /\ ReplaceDashAsInt(At(d, i).FitExc) = 0

EvalResidual(d, i) ==
    IF i <= 1 THEN RelResidual(d, i)
    ELSE IF EvalFilter(d, i) THEN RelResidual(d, i) ELSE NaN

\* data["Residual"][2:].dropna(): the rows that reach np.std
EvalStdRows(d) == { i \in Index(d) : i >= 2 /\ NotNa(EvalResidual(d, i)) }

EvalStd(d) ==
    LET o == Ordered(EvalStdRows(d))
    IN  NpStd([j \in 1..Len(o) |-> EvalResidual(d, o[j])])

\* line 86: all(data.loc[0:1, "Residual"] >= 3*std)
ResidualTestMut(d) ==
    \E i \in { j \in Index(d) : j <= 1 } : GeSigma(EvalResidual(d, i), EvalStd(d))
ResidualTest(d) ==
    \A i \in { j \in Index(d) : j <= 1 } : GeSigma(EvalResidual(d, i), EvalStd(d))

\* The Vgfb cell of the object's first row in results/bestfitp.dat:
\*   NoRow   no row for the object (row.iloc[0] raises IndexError)
\*   Dash    a text that float() rejects (ValueError)
\*   NaN     a missing value, or the text "NaN": float() returns nan
\*   Val(n)  a number
NoRow == [k |-> "norow"]
VgfbCells == { NoRow, Dash, NaN, Val(VgfbCutoff - 1), Val(VgfbCutoff),
               Val(VgfbCutoff + 1) }

\* lines 87-97: the Vgfb rule applied to the residual verdict g
VgfbRule(g, r) ==
    IF r.k = "norow" THEN FALSE               \* except IndexError
    ELSE IF r.k = "dash" THEN FALSE           \* except ValueError
    ELSE IF r.k = "nan" THEN g                \* nan >= 15 is False
    ELSE IF r.n >= VgfbCutoff THEN FALSE
    ELSE g

\* lines 78-98: the classification of one photometry table
Classify(d, r) == VgfbRule(ResidualTest(d), r)

\* plot_flux_res, lines 153-170
PlotFilter(d, i) ==
    /\ RawEq(d, i, "Fitted", "1")
    /\ RawEq(d, i, "Excess", "0")
    /\ ReplaceDashAsInt(At(d, i).UpLim) = 0
    /\ ReplaceDashAsInt(At(d, i).FitExc) = 0

PlotResidual(d, i) ==
    IF i <= 1 THEN RelResidual(d, i)
    ELSE IF PlotFilter(d, i) THEN RelResidual(d, i) ELSE NaN

PlotStdRows(d) == { i \in Index(d) : i >= 2 /\ NotNa(PlotResidual(d, i)) }

\* build_entries, lines 47-64: Residual is Flux - FluxMod, not divided
EntryMask(d, i) ==
    /\ i >= 2
    /\ ReplaceDashAsInt(At(d, i).Fitted) = 1
    /\ ReplaceDashAsInt(At(d, i).Excess) = 0
    /\ ReplaceDashAsInt(At(d, i).UpLim) = 0
    /\ ReplaceDashAsInt(At(d, i).FitExc) = 0

EntryResidual(d, i) ==
    IF i <= 1 \/ EntryMask(d, i)
    THEN Sub(ToNumeric(At(d, i).Flux), ToNumeric(At(d, i).FluxMod))
    ELSE NaN

\* df[df["Residual"].notna()], the exported rows
EntryRows(d) == { i \in Index(d) : NotNa(EntryResidual(d, i)) }

(***************************************************************************)
(* One table through the three places the residual logic is written.       *)
(***************************************************************************)
\* evaluate_candidates, one pass of the loop of line 72
EvaluateCandidate ==
    /\ cpc = "evaluate"
    /\ \E r \in VgfbCells :
          /\ row' = r
          /\ good' = Classify(data, r)
    /\ std_rows' = EvalStdRows(data)
    /\ cpc' = "plot"
    /\ UNCHANGED <<data, plot_rows, entry_rows>>
    /\ UNCHANGED notClassify

\* plot_flux_res on the copied object (lines 131-137 call it)
PlotFluxRes ==
    /\ cpc = "plot"
    /\ plot_rows' = PlotStdRows(data)
    /\ cpc' = "entries"
    /\ UNCHANGED <<data, row, good, std_rows, entry_rows>>
    /\ UNCHANGED notClassify

\* wd_ascii_vosa.build_entries on the same file
BuildEntries ==
    /\ cpc = "entries"
    /\ entry_rows' = { i \in EntryRows(data) : i >= 2 }
    /\ cpc' = "done"
    /\ UNCHANGED <<data, row, good, std_rows, plot_rows>>
    /\ UNCHANGED notClassify

(***************************************************************************)
(***************************************************************************)
(* evaluate_candidates on a base directory (ms_data_process.py 62-126).    *)
(* A photometry file is <tree>/objects/<folder>/bestfitp/<obj>.bfit.phot.dat*)
(* with its table; the glob matches any tree, folder and file name.        *)
(***************************************************************************)
MaxFiles == 3        \* photometry files under base_dir

Trees == {1, 2}
Folders == {"A", "B"}
Objs == {"A", "B"}

\* a table that passes the residual test and one that fails it
PassTable ==
    << PhotRow(Val(1), Val(0), "0", "0", "0", "0"),
       PhotRow(Val(1), Val(0), "0", "0", "0", "0"),
       PhotRow(Val(1), Val(1), "1", "0", "0", "0") >>
FailTable ==
    << PhotRow(Val(1), Val(2), "0", "0", "0", "0"),
       PhotRow(Val(1), Val(0), "0", "0", "0", "0"),
       PhotRow(Val(1), Val(1), "1", "0", "0", "0") >>

PhotFiles ==
    [tree : Trees, folder : Folders, obj : Objs, table : {"pass", "fail"}]

\* line 73: pd.read_csv(file_path, ...)
ReadPhot(f) == IF f.table = "pass" THEN PassTable ELSE FailTable

PathOf(f) == <<f.tree, f.folder, f.obj>>

\* the lists a glob can return: distinct paths, in any order
Globs ==
    UNION { { s \in [1..n -> PhotFiles] :
                \A i, j \in 1..n : i # j => PathOf(s[i]) # PathOf(s[j]) } :
            n \in 0..MaxFiles }

\* results_df: the Vgfb cell of the row whose Object is obj
ResultsRow(obj) == IF obj = "A" THEN Val(VgfbCutoff - 1) ELSE Val(VgfbCutoff)

\* line 75: os.path.abspath(os.path.join(file_path, "../../"))
ObjDir(f) == [tree |-> f.tree, folder |-> f.folder]
\* os.path.basename(obj_dir)
Basename(dir) == dir.folder

\* lines 68-69: glob(...)[0] raises IndexError without a results file
EvaluateStart ==
    /\ epc = "start"
    /\ epc' = IF has_results THEN "classify" ELSE "IndexError"
    /\ UNCHANGED <<has_results, phot_files, classification, good_count,
                   bad_count, gc_objects, bc_objects, copied>>
    /\ UNCHANGED notEvaluate

\* lines 72-98: one pass of the first loop
ClassifyFile ==
    /\ epc = "classify"
    /\ Len(classification) < Len(phot_files)
    /\ LET f == phot_files[Len(classification) + 1]
       IN  classification' = Append(classification,
               [obj_dir |-> ObjDir(f),
                is_good |-> Classify(ReadPhot(f), ResultsRow(f.obj))])
    /\ UNCHANGED <<has_results, phot_files, good_count, bad_count, gc_objects,
                   bc_objects, copied, epc>>
    /\ UNCHANGED notEvaluate

\* lines 100-113: the counts, and the two empty objects directories
PrepareDirs ==
    /\ epc = "classify"
    /\ Len(classification) = Len(phot_files)
    /\ LET g == Cardinality({ i \in 1..Len(classification) :
                                classification[i].is_good })
       IN  /\ good_count' = g
           /\ bad_count' = Len(classification) - g
    /\ epc' = "copy"
    /\ UNCHANGED <<has_results, phot_files, classification, gc_objects,
                   bc_objects, copied>>
    /\ UNCHANGED notEvaluate

\* lines 117-121: one pass of the copy loop; a folder is a record
\* [name |-> basename, src |-> the obj_dir it was copied from]
CopyInto(dest, dir) ==
    IF \E c \in dest : c.name = Basename(dir)
    THEN dest                                    \* os.path.exists: no copy
    ELSE dest \cup { [name |-> Basename(dir), src |-> dir] }

CopyFolder ==
    /\ epc = "copy"
    /\ copied < Len(classification)
    /\ LET c == classification[copied + 1]
       IN  IF c.is_good
           THEN /\ gc_objects' = CopyInto(gc_objects, c.obj_dir)
                /\ bc_objects' = bc_objects
           ELSE /\ bc_objects' = CopyInto(bc_objects, c.obj_dir)
                /\ gc_objects' = gc_objects
    /\ copied' = copied + 1
    /\ UNCHANGED <<has_results, phot_files, classification, good_count,
                   bad_count, epc>>
    /\ UNCHANGED notEvaluate

\* lines 123-139: the CSV files, the plots and the report
EvaluateFinish ==
    /\ epc = "copy"
    /\ copied = Len(classification)
    /\ epc' = "done"
    /\ UNCHANGED <<has_results, phot_files, classification, good_count,
                   bad_count, gc_objects, bc_objects, copied>>
    /\ UNCHANGED notEvaluate

IdleEvaluate ==
    /\ has_results = TRUE
    /\ phot_files = <<>>
    /\ classification = <<>>
    /\ good_count = 0
    /\ bad_count = 0
    /\ gc_objects = {}
    /\ bc_objects = {}
    /\ copied = 0
    /\ epc = "idle"

IdleClassify ==
    /\ data = <<>>
    /\ row = NoRow
    /\ good = FALSE
    /\ std_rows = {}
    /\ plot_rows = {}
    /\ entry_rows = {}
    /\ cpc = "idle"

(***************************************************************************)
(* ms_ascii_vosa.py: main, read_catalog and ms_ascii_noUV_VOSA.            *)
(***************************************************************************)
MaxCatalog == 4      \* rows of the catalog
MaxChunk == 3        \* the small chunk sizes tried

ChunkLimit == 1000
NFilters == 19

\* the Name column, and what line 75 makes of it:
\* row["Name"].replace(" ", "_").replace("*", "_AST_")
Names == {"WD 1", "WD_1", "S*"}
Sanitise(name) ==
    CASE name = "WD 1" -> "WD_1"
      [] name = "S*" -> "S_AST_"
      [] OTHER -> name

\* lines 31-51: (mag column, error column, VOSA filter name, pntopts)
FILTER_COLUMNS ==
    << [mag |-> "FUVmag", err |-> "e_FUVmag", filt |-> "GALEX/GALEX.FUV", pntopts |-> "nofit"],
       [mag |-> "NUVmag", err |-> "e_NUVmag", filt |-> "GALEX/GALEX.NUV", pntopts |-> "nofit"],
       [mag |-> "BPmag", err |-> "e_BPmag", filt |-> "GAIA/GAIA3.Gbp", pntopts |-> "mag"],
       [mag |-> "Gmag", err |-> "e_Gmag", filt |-> "GAIA/GAIA3.G", pntopts |-> "mag"],
       [mag |-> "RPmag", err |-> "e_RPmag", filt |-> "GAIA/GAIA3.Grp", pntopts |-> "mag"],
       [mag |-> "Bmag", err |-> "e_Bmag", filt |-> "Misc/APASS.B", pntopts |-> "mag"],
       [mag |-> "gmag_x", err |-> "e_gmag_x", filt |-> "PAN-STARRS/PS1.g", pntopts |-> "mag"],
       [mag |-> "Vmag", err |-> "e_Vmag", filt |-> "Misc/APASS.V", pntopts |-> "mag"],
       [mag |-> "rmag", err |-> "e_rmag", filt |-> "PAN-STARRS/PS1.r", pntopts |-> "mag"],
       [mag |-> "imag", err |-> "e_imag", filt |-> "PAN-STARRS/PS1.i", pntopts |-> "mag"],
       [mag |-> "zmag", err |-> "e_zmag", filt |-> "PAN-STARRS/PS1.z", pntopts |-> "mag"],
       [mag |-> "ymag", err |-> "e_ymag", filt |-> "PAN-STARRS/PS1.y", pntopts |-> "mag"],
       [mag |-> "Jmag", err |-> "e_Jmag", filt |-> "2MASS/2MASS.H", pntopts |-> "mag"],
       [mag |-> "Hmag", err |-> "e_Hmag", filt |-> "2MASS/2MASS.J", pntopts |-> "mag"],
       [mag |-> "Kmag", err |-> "e_Kmag", filt |-> "2MASS/2MASS.Ks", pntopts |-> "mag"],
       [mag |-> "W1mag", err |-> "e_W1mag", filt |-> "WISE/WISE.W1", pntopts |-> "mag"],
       [mag |-> "W2mag", err |-> "e_W2mag", filt |-> "WISE/WISE.W2", pntopts |-> "mag"],
       [mag |-> "W3mag", err |-> "e_W3mag", filt |-> "WISE/WISE.W3", pntopts |-> "mag"],
       [mag |-> "W4mag", err |-> "e_W4mag", filt |-> "WISE/WISE.W4", pntopts |-> "mag"] >>

MagColumns == { FILTER_COLUMNS[f].mag : f \in 1..NFilters }
ErrColumns == { FILTER_COLUMNS[f].err : f \in 1..NFilters }

\* the float a photometry column holds where it is not NaN: 10.0 + f in the
\* mag column of filter f, f / 1 in its error column
ColumnValue(c) ==
    LET f == CHOOSE g \in 1..NFilters :
                 c \in {FILTER_COLUMNS[g].mag, FILTER_COLUMNS[g].err}
    IN  IF c = FILTER_COLUMNS[f].mag THEN Num(10 + f, 1) ELSE Num(f, 1)

\* the catalog rows tried, by name: the columns that are NaN in the row
NaNColumns(name) ==
    CASE name = "WD 1" -> {"FUVmag"}
      [] name = "WD_1" -> {"e_BPmag", "W4mag", "e_W4mag"}
      [] OTHER -> {}

\* the photometry columns a catalog may lack altogether
AbsentChoices == { {}, {"NUVmag", "e_NUVmag", "e_Gmag"} }

\* a row of a frame without the columns of absent: its Name and its cells
CatalogRow(name, absent) ==
    [Name |-> name,
     cells |-> [c \in (MagColumns \cup ErrColumns) \ absent |->
                   IF c \in NaNColumns(name) THEN NaN ELSE ColumnValue(c)]]

Catalogs ==
    UNION { [1..n -> { CatalogRow(name, absent) : name \in Names }] :
              n \in 0..MaxCatalog, absent \in AbsentChoices }

\* read_catalog, lines 102-112: the extensions it loads
SupportedExt == {".pkl", ".pickle", ".parquet", ".feather", ".ft", ".csv",
                 ".tsv", ".txt"}
Extensions == {".csv", ".pkl", ".xlsx"}

ChunkArgs == {-1, 0} \cup (1..MaxChunk) \cup {ChunkLimit, ChunkLimit + 1}

\* lines 137-142: the sanity checks of main
ChunkTooLargeMut(c) == c >= ChunkLimit
ChunkTooLarge(c) == c > ChunkLimit

Rejected(exists, c) == ~exists \/ c <= 0 \/ ChunkTooLarge(c)

\* line 64: end = min(start + chunk_size, total_rows)
ChunkEndMut(s, n, total) == s + n
ChunkEnd(s, n, total) == IF s + n < total THEN s + n ELSE total

\* lines 81-82: row.get(col, "---"), the text "---" for a column the row
\* does not have
RowGet(r, col) == IF col \in DOMAIN r.cells THEN r.cells[col] ELSE Dash

\* f"{x}" of a field: the text itself, or the repr of the float
Str(x) ==
    CASE x.k = "dash" -> "---"
      [] x.k = "nan" -> "nan"
      [] x.k = "num" -> ToString(x.n) \o ".0"

\* lines 80-92: the line written for row r (at position i) and filter f
FilterLine(i, r, f) ==
    LET fc == FILTER_COLUMNS[f]
        mag == RowGet(r, fc.mag)
        err == RowGet(r, fc.err)
        usable == NotNa(mag) /\ NotNa(err)          \* line 84
    IN  [row |-> i,
         obj |-> Sanitise(r.Name),
         filt |-> fc.filt,
         flux |-> IF usable THEN Str(mag) ELSE "---",
         error |-> IF usable THEN Str(err) ELSE "---",
         pntopts |-> IF usable THEN fc.pntopts ELSE "---"]

\* lines 73-92: the lines written for the catalog row at position i (the
\* position is kept with each line to tell equal rows apart)
RowLines(frame, i) ==
    [f \in 1..NFilters |-> FilterLine(i, frame[i + 1], f)]

RECURSIVE ChunkLines(_, _, _)
\* df.iloc[s:e] written row by row; a slice stops at the end of the frame
ChunkLines(frame, s, e) ==
    IF s >= e \/ s >= Len(frame) THEN <<>>
    ELSE RowLines(frame, s) \o ChunkLines(frame, s + 1, e)

\* main, lines 134-142
MainChecks ==
    /\ xpc = "main"
    /\ xpc' = IF Rejected(catalog_exists, chunk_arg) THEN "exit" ELSE "read"
    /\ UNCHANGED <<entry, catalog_exists, catalog_ext, catalog, chunk_arg,
                   catalog_read, df, chunk_size, outdir_made, out_files,
                   start>>
    /\ UNCHANGED notExport

\* main, lines 144-145: read_catalog, then the call of ms_ascii_noUV_VOSA
ReadCatalog ==
    /\ xpc = "read"
    /\ IF catalog_ext \in SupportedExt
       THEN /\ catalog_read' = TRUE
            /\ df' = catalog
            /\ chunk_size' = chunk_arg
            /\ xpc' = "export"
       ELSE /\ xpc' = "ValueError"               \* line 112
            /\ UNCHANGED <<catalog_read, df, chunk_size>>
    /\ UNCHANGED <<entry, catalog_exists, catalog_ext, catalog, chunk_arg,
                   outdir_made, out_files, start>>
    /\ UNCHANGED notExport

\* ms_ascii_noUV_VOSA, lines 60-63: mkdir and range(0, total_rows, chunk_size)
ExportStart ==
    /\ xpc = "export"
    /\ outdir_made' = TRUE
    /\ start' = 0
    /\ xpc' = IF chunk_size = 0 THEN "ValueError"   \* range() arg 3 is zero
              ELSE "loop"
    /\ UNCHANGED <<entry, catalog_exists, catalog_ext, catalog, chunk_arg,
                   catalog_read, df, chunk_size, out_files>>
    /\ UNCHANGED notExport

\* lines 63-94: one pass of the loop
WriteChunk ==
    /\ xpc = "loop"
    /\ chunk_size > 0
    /\ start < Len(df)
    /\ LET end == ChunkEnd(start, chunk_size, Len(df))
           name == <<start, end>>
       IN  out_files' =
              [n \in DOMAIN out_files \cup {name} |->
                  IF n = name THEN ChunkLines(df, start, end) ELSE out_files[n]]
    /\ start' = start + chunk_size
    /\ UNCHANGED <<entry, catalog_exists, catalog_ext, catalog, chunk_arg,
                   catalog_read, df, chunk_size, outdir_made, xpc>>
    /\ UNCHANGED notExport

\* the range is exhausted (at once for a negative step)
ExportDone ==
    /\ xpc = "loop"
    /\ chunk_size < 0 \/ start >= Len(df)
    /\ xpc' = "done"
    /\ UNCHANGED <<entry, catalog_exists, catalog_ext, catalog, chunk_arg,
                   catalog_read, df, chunk_size, outdir_made, out_files,
                   start>>
    /\ UNCHANGED notExport

IdleExport ==
    /\ entry = "idle"
    /\ catalog_exists = FALSE
    /\ catalog_ext = ".csv"
    /\ catalog = <<>>
    /\ chunk_arg = 0
    /\ catalog_read = FALSE
    /\ df = <<>>
    /\ chunk_size = 0
    /\ outdir_made = FALSE
    /\ out_files = <<>>
    /\ start = 0
    /\ xpc = "idle"

(***************************************************************************)
(* wd_ascii_vosa.write_batches (lines 81-95).                              *)
(***************************************************************************)
MaxEntries == 4      \* rows in the entries list
MaxBatch == 3        \* the largest chunk tried

EntryObjects == {"a", "b", "c"}

\* the entries: the object of each row, and the row's place in the list
EntryLists ==
    UNION { { [j \in 1..n |-> [object |-> o[j], pos |-> j]] :
                o \in [1..n -> EntryObjects] } : n \in 0..MaxEntries }

\* line 84: df["object"].unique(), the objects in order of first appearance
RECURSIVE UniqueMut(_)
UniqueMut(s) ==
    IF s = <<>> THEN <<>> ELSE <<Head(s).object>> \o UniqueMut(Tail(s))

RECURSIVE Unique(_)
Unique(s) ==
    IF s = <<>> THEN <<>>
    ELSE LET u == Unique(SubSeq(s, 1, Len(s) - 1))
             o == s[Len(s)].object
         IN  IF \E j \in 1..Len(u) : u[j] = o THEN u ELSE Append(u, o)

\* line 85: unique_objs[i:i + chunk]
Slice(u, i, n) ==
    { u[j] : j \in { k \in 1..Len(u) : i < k /\ k <= i + n } }

\* line 88: df[df["object"].isin(obj_subset)], the rows in df order
RECURSIVE IsIn(_, _)
IsIn(s, subset) ==
    IF s = <<>> THEN <<>>
    ELSE (IF Head(s).object \in subset THEN <<Head(s)>> ELSE <<>>)
         \o IsIn(Tail(s), subset)

\* lines 82-85; pd.DataFrame([]) has no "object" column (KeyError), and
\* range() refuses a step of 0 (ValueError)
BatchesStart ==
    /\ wpc = "start"
    /\ IF entries = <<>>
       THEN wpc' = "KeyError" /\ unique_objs' = unique_objs
       ELSE /\ unique_objs' = Unique(entries)
            /\ wpc' = IF chunk = 0 THEN "ValueError" ELSE "loop"
    /\ UNCHANGED <<entries, chunk, batch_files, idx>>
    /\ UNCHANGED notBatches

\* lines 87-94: one pass of the loop over chunks
WriteBatch ==
    /\ wpc = "loop"
    /\ chunk > 0
    /\ idx * chunk < Len(unique_objs)
    /\ LET obj_subset == Slice(unique_objs, idx * chunk, chunk)
       IN  batch_files' = Append(batch_files, IsIn(entries, obj_subset))
    /\ idx' = idx + 1
    /\ UNCHANGED <<entries, chunk, unique_objs, wpc>>
    /\ UNCHANGED notBatches

\* line 95: no chunk is left (none at all for a negative chunk)
BatchesDone ==
    /\ wpc = "loop"
    /\ chunk < 0 \/ idx * chunk >= Len(unique_objs)
    /\ wpc' = "done"
    /\ UNCHANGED <<entries, chunk, unique_objs, batch_files, idx>>
    /\ UNCHANGED notBatches

IdleBatches ==
    /\ entries = <<>>
    /\ chunk = 0
    /\ unique_objs = <<>>
    /\ batch_files = <<>>
    /\ idx = 0
    /\ wpc = "idle"

(***************************************************************************)
(* wdms_data_process.dedup_theoretical (lines 55-71).                      *)
(* A file name is [base, variant, bt]: variant 0 is a name without an      *)
(* a[+-]d.d token, variant v > 0 the same name with a token; bt says the   *)
(* name ends in ".BT-NextGen.7.dat.txt".                                   *)
(***************************************************************************)
MaxListing == 3      \* files in the spectra directory
MaxVariant == 2      \* a+-x variants of one name

SpecNames == [base : {"lte030", "lte031"}, variant : 0..MaxVariant,
              bt : BOOLEAN]

\* line 63: pattern.sub("", fname) removes the token
Cleaned(fname) == [fname EXCEPT !.variant = 0]

\* os.listdir: the files of the directory, in arbitrary order
Listings ==
    UNION { { s \in [1..n -> SpecNames] :
                \A i, j \in 1..n : i # j => s[i] # s[j] } : n \in 0..MaxListing }

\* the directory holding the listed files, each with its own content
DirOf(l) == [n \in { l[j] : j \in 1..Len(l) } |-> n]

\* lines 60-64: one pass of the first loop
GroupAdd(u, fname) ==
    IF \E g \in 1..Len(u) : u[g].cleaned = Cleaned(fname)
    THEN [g \in 1..Len(u) |->
            IF u[g].cleaned = Cleaned(fname)
            THEN [u[g] EXCEPT !.originals = Append(@, fname)]
            ELSE u[g]]
    ELSE Append(u, [cleaned |-> Cleaned(fname), originals |-> <<fname>>])

ScanName ==
    /\ dpc = "scan"
    /\ scanned < Len(listing)
    /\ LET fname == listing[scanned + 1]
       IN  unique' = IF fname.bt THEN GroupAdd(unique, fname) ELSE unique
    /\ scanned' = scanned + 1
    /\ UNCHANGED <<os_name, listing, spec_dir, grouped, dpc>>
    /\ UNCHANGED notDedup

ScanDone ==
    /\ dpc = "scan"
    /\ scanned = Len(listing)
    /\ dpc' = "dedup"
    /\ UNCHANGED <<os_name, listing, spec_dir, unique, scanned, grouped>>
    /\ UNCHANGED notDedup

\* os.rename(src, dst): dst is replaced on POSIX
Rename(dir, src, dst) ==
    [n \in (DOMAIN dir \ {src}) \cup {dst} |->
        IF n = dst THEN dir[src] ELSE dir[n]]

\* os.remove of each name of s that the directory holds
RECURSIVE RemoveAll(_, _)
RemoveAll(dir, s) ==
    IF s = <<>> THEN dir
    ELSE RemoveAll([n \in DOMAIN dir \ {Head(s)} |-> dir[n]], Tail(s))

\* lines 66-71: one pass of the second loop
DedupGroup ==
    /\ dpc = "dedup"
    /\ grouped < Len(unique)
    /\ LET cleaned == unique[grouped + 1].cleaned
           originals == unique[grouped + 1].originals
           keep == originals[1]
       IN  IF keep # cleaned /\ cleaned \in DOMAIN spec_dir /\ os_name = "nt"
           THEN /\ dpc' = "FileExistsError"
                /\ UNCHANGED <<spec_dir, grouped>>
           ELSE /\ spec_dir' =
                      RemoveAll(IF keep # cleaned
                                THEN Rename(spec_dir, keep, cleaned)
                                ELSE spec_dir,
                                Tail(originals))
                /\ grouped' = grouped + 1
                /\ dpc' = dpc
    /\ UNCHANGED <<os_name, listing, unique, scanned>>
    /\ UNCHANGED notDedup

DedupDone ==
    /\ dpc = "dedup"
    /\ grouped = Len(unique)
    /\ dpc' = "done"
    /\ UNCHANGED <<os_name, listing, spec_dir, unique, scanned, grouped>>
    /\ UNCHANGED notDedup

IdleDedup ==
    /\ os_name = "posix"
    /\ listing = <<>>
    /\ spec_dir = <<>>
    /\ unique = <<>>
    /\ scanned = 0
    /\ grouped = 0
    /\ dpc = "idle"

(***************************************************************************)
(* The photometry cleaners: ms_data_process.process_phot_files (10-30) and *)
(* wdms_data_process.clean_photometry (27-37), on one file.  A file is the *)
(* sequence of its characters; NL is the line feed.                        *)
(***************************************************************************)
ExtraLines == 2      \* lines a file may have beyond the target line

PhotHeaderLine == 41
WdHeaderLine == 37

NL == "\n"

RECURSIVE Concat(_)
\* "".join(lines); f.writelines(lines)
Concat(lines) == IF lines = <<>> THEN <<>> ELSE Head(lines) \o Concat(Tail(lines))

RECURSIVE Readlines(_)
\* f.readlines(): the lines with their line feed, the last one maybe without
Readlines(text) ==
    IF text = <<>> THEN <<>>
    ELSE IF \E j \in 1..Len(text) : text[j] = NL
         THEN LET e == CHOOSE j \in 1..Len(text) :
                          /\ text[j] = NL
                          /\ \A k \in 1..(j - 1) : text[k] # NL
              IN  <<SubSeq(text, 1, e)>>
                  \o Readlines(SubSeq(text, e + 1, Len(text)))
         ELSE <<text>>

\* str.splitlines(): the lines without their line feed
Splitlines(text) ==
    LET ls == Readlines(text)
    IN  [j \in 1..Len(ls) |->
            IF ls[j][Len(ls[j])] = NL THEN SubSeq(ls[j], 1, Len(ls[j]) - 1)
            ELSE ls[j]]

\* "\n".join(lines) + "\n"
JoinLines(lines) == Concat([j \in 1..Len(lines) |-> Append(lines[j], NL)])

RECURSIVE LstripHashMut(_)
LstripHashMut(line) ==
    IF line # <<>> /\ Head(line) \in {"#", " "} THEN LstripHashMut(Tail(line))
    ELSE line

RECURSIVE LstripHash(_)
\* line.lstrip('#')
LstripHash(line) ==
    IF line # <<>> /\ Head(line) = "#" THEN LstripHash(Tail(line)) ELSE line

\* process_phot_files, lines 17-23, on the text of one file:
\* the text it leaves, and whether it wrote the file
ProcessPhotText(text) ==
    LET lines == Readlines(text)
    IN  IF Len(lines) >= PhotHeaderLine
        THEN [text |-> Concat([lines EXCEPT ![PhotHeaderLine] = LstripHash(@)]),
              wrote |-> TRUE]
        ELSE [text |-> text, wrote |-> FALSE]

\* clean_photometry, lines 32-36, on the text of one file
CleanPhotometryText(text) ==
    LET lines == Splitlines(text)
    IN  IF Len(lines) >= WdHeaderLine
        THEN [text |-> JoinLines([lines EXCEPT ![WdHeaderLine] = LstripHash(@)]),
              wrote |-> TRUE]
        ELSE [text |-> text, wrote |-> FALSE]

\* The files tried: comment lines up to the target line, the target line,
\* then data lines, with or without a line feed at the end.
TargetLines ==
    { <<>>, <<"F">>, <<"#", "F">>, <<"#", "#", "F">>, <<"#", " ", "F">>,
      <<" ", "#", "F">>, <<"F", "#">>, <<"#">> }
DataLines == { <<"d">>, <<"#", "d">> }

FileLines(target_no, n, target, dline) ==
    [j \in 1..n |-> IF j < target_no THEN <<"#", "c">>
                    ELSE IF j = target_no THEN target ELSE dline]

FileTexts(target_no) ==
    { IF nl THEN JoinLines(FileLines(target_no, n, t, d))
      ELSE LET x == JoinLines(FileLines(target_no, n, t, d))
           IN  SubSeq(x, 1, Len(x) - 1) :
        n \in (target_no - 1)..(target_no + ExtraLines),
        t \in TargetLines, d \in DataLines, nl \in BOOLEAN }

\* one application of process_phot_files to the file
ProcessPhotFiles ==
    /\ lpc = "clean"
    /\ cleaner = "process_phot_files"
    /\ passes < 2
    /\ LET r == ProcessPhotText(phot_text)
       IN  /\ phot_text' = r.text
           /\ rewritten' = r.wrote
           /\ pass1_text' = IF passes = 0 THEN r.text ELSE pass1_text
    /\ passes' = passes + 1
    /\ UNCHANGED <<cleaner, orig_text, lpc>>
    /\ UNCHANGED notClean

\* one application of clean_photometry to the file
CleanPhotometry ==
    /\ lpc = "clean"
    /\ cleaner = "clean_photometry"
    /\ passes < 2
    /\ LET r == CleanPhotometryText(phot_text)
       IN  /\ phot_text' = r.text
           /\ rewritten' = r.wrote
           /\ pass1_text' = IF passes = 0 THEN r.text ELSE pass1_text
    /\ passes' = passes + 1
    /\ UNCHANGED <<cleaner, orig_text, lpc>>
    /\ UNCHANGED notClean

IdleClean ==
    /\ cleaner = "idle"
    /\ phot_text = <<>>
    /\ orig_text = <<>>
    /\ pass1_text = <<>>
    /\ passes = 0
    /\ rewritten = FALSE
    /\ lpc = "idle"

(***************************************************************************)
(* wdms_data_process.py: the module's statements in file order (the def    *)
(* statements, the __main__ guard of line 171, the def of plot_seds on     *)
(* line 175) and main (lines 75-168).                                      *)
(***************************************************************************)
MaxMerged == 2       \* rows of merged_WD_MS_data.csv

\* the def statements above the __main__ guard, lines 27-75
DefsAboveGuard ==
    {"clean_photometry", "clean_bestfitp", "dedup_theoretical", "main"}

\* a name is looked up when the call runs: NameError if it is not bound yet
Bound(name) == name \in defined

wdmsInputs == <<run_as, base_is_dir, spec_dirs_ok, has_bestfitp, n_csv,
                merged_rows>>
wdmsOther == <<varsClassify, varsEvaluate, varsExport, varsBatches>>

\* lines 27-75: the def statements run, binding the four functions
ModuleDefs ==
    /\ mpc = "defs"
    /\ defined' = defined \cup DefsAboveGuard
    /\ mpc' = "guard"
    /\ UNCHANGED <<wdmsInputs, main_pc, steps, outputs, plots, plotted, report>>
    /\ UNCHANGED <<wdmsOther, varsDedup, varsClean>>

\* lines 171-172: if __name__ == "__main__": main()
ModuleGuard ==
    /\ mpc = "guard"
    /\ IF run_as = "script"
       THEN mpc' = "in_main" /\ main_pc' = "args"
       ELSE mpc' = "def_plot_seds" /\ main_pc' = main_pc
    /\ UNCHANGED <<wdmsInputs, defined, steps, outputs, plots, plotted, report>>
    /\ UNCHANGED <<wdmsOther, varsDedup, varsClean>>

\* main has returned, or raised: an exception ends the script
ModuleAfterMain ==
    /\ mpc = "in_main"
    /\ main_pc \in {"returned", "NameError", "FileNotFoundError",
                    "FileExistsError"}
    /\ mpc' = IF main_pc = "returned" /\ run_as = "script"
              THEN "def_plot_seds" ELSE "end"
    /\ UNCHANGED <<wdmsInputs, defined, main_pc, steps, outputs, plots,
                   plotted, report>>
    /\ UNCHANGED <<wdmsOther, varsDedup, varsClean>>

\* line 175: def plot_seds, the last statement of the module
ModuleDefPlotSeds ==
    /\ mpc = "def_plot_seds"
    /\ defined' = defined \cup {"plot_seds"}
    /\ mpc' = IF run_as = "script" THEN "end" ELSE "imported"
    /\ UNCHANGED <<wdmsInputs, main_pc, steps, outputs, plots, plotted, report>>
    /\ UNCHANGED <<wdmsOther, varsDedup, varsClean>>

\* the importing program calls main()
ImporterCallsMain ==
    /\ mpc = "imported"
    /\ mpc' = "in_main"
    /\ main_pc' = "args"
    /\ UNCHANGED <<wdmsInputs, defined, steps, outputs, plots, plotted, report>>
    /\ UNCHANGED <<wdmsOther, varsDedup, varsClean>>

\* main, lines 78-101: the arguments and the two directory checks
MainArgs ==
    /\ main_pc = "args"
    /\ main_pc' = IF base_is_dir /\ spec_dirs_ok THEN "step1" ELSE "returned"
    /\ UNCHANGED <<wdmsInputs, defined, mpc, steps, outputs, plots, plotted,
                   report>>
    /\ UNCHANGED <<wdmsOther, varsDedup, varsClean>>

\* line 104: clean_photometry(base), on the photometry file under base
MainCleanPhotometry ==
    /\ main_pc = "step1"
    /\ IF Bound("clean_photometry")
       THEN /\ phot_text' = CleanPhotometryText(phot_text).text
            /\ rewritten' = CleanPhotometryText(phot_text).wrote
            /\ steps' = Append(steps, 1)
            /\ main_pc' = "step2"
       ELSE /\ main_pc' = "NameError"
            /\ UNCHANGED <<phot_text, rewritten, steps>>
    /\ UNCHANGED <<wdmsInputs, defined, mpc, outputs, plots, plotted, report>>
    /\ UNCHANGED <<cleaner, orig_text, pass1_text, passes, lpc>>
    /\ UNCHANGED <<wdmsOther, varsDedup>>

\* line 107: clean_bestfitp(base); lines 44-45 raise without a bestfitp.dat
MainCleanBestfitp ==
    /\ main_pc = "step2"
    /\ IF ~Bound("clean_bestfitp") THEN main_pc' = "NameError" /\ steps' = steps
       ELSE IF ~has_bestfitp
            THEN main_pc' = "FileNotFoundError" /\ steps' = steps
            ELSE main_pc' = "step3" /\ steps' = Append(steps, 2)
    /\ UNCHANGED <<wdmsInputs, defined, mpc, outputs, plots, plotted, report>>
    /\ UNCHANGED <<wdmsOther, varsDedup, varsClean>>

\* line 110: dedup_theoretical(ms_spec_dir) is called ...
MainDedupCall ==
    /\ main_pc = "step3"
    /\ IF Bound("dedup_theoretical")
       THEN main_pc' = "in_dedup" /\ dpc' = "scan"
       ELSE main_pc' = "NameError" /\ dpc' = dpc
    /\ UNCHANGED <<wdmsInputs, defined, mpc, steps, outputs, plots, plotted,
                   report>>
    /\ UNCHANGED <<os_name, listing, spec_dir, unique, scanned, grouped>>
    /\ UNCHANGED <<wdmsOther, varsClean>>

\* ... and returns, or raises out of main
MainDedupReturn ==
    /\ main_pc = "in_dedup"
    /\ dpc \in {"done", "FileExistsError"}
    /\ IF dpc = "done"
       THEN main_pc' = "step4" /\ steps' = Append(steps, 3)
       ELSE main_pc' = "FileExistsError" /\ steps' = steps
    /\ UNCHANGED <<wdmsInputs, defined, mpc, outputs, plots, plotted, report>>
    /\ UNCHANGED <<wdmsOther, varsDedup, varsClean>>

\* lines 113-138: result_dir is created; main returns unless the MS folder
\* has exactly one CSV; then plots/ and bestfitp_wdms.csv
MainResultDir ==
    /\ main_pc = "step4"
    /\ IF n_csv # 1
       THEN /\ outputs' = outputs \cup {"result_dir"}
            /\ main_pc' = "returned"
            /\ steps' = steps
       ELSE /\ outputs' = outputs \cup {"result_dir", "plots",
                                        "bestfitp_wdms.csv"}
            /\ main_pc' = "step5"
            /\ steps' = Append(steps, 4)
    /\ UNCHANGED <<wdmsInputs, defined, mpc, plots, plotted, report>>
    /\ UNCHANGED <<wdmsOther, varsDedup, varsClean>>

\* lines 141-145: all WD bestfitp.dat merged into combined_fit_WD.dat
MainMergeWd ==
    /\ main_pc = "step5"
    /\ outputs' = outputs \cup {"combined_fit_WD.dat"}
    /\ steps' = Append(steps, 5)
    /\ main_pc' = "step6"
    /\ UNCHANGED <<wdmsInputs, defined, mpc, plots, plotted, report>>
    /\ UNCHANGED <<wdmsOther, varsDedup, varsClean>>

\* lines 148-154: WD and MS merged into merged_WD_MS_data.csv
MainMergeWdMs ==
    /\ main_pc = "step6"
    /\ outputs' = outputs \cup {"merged_WD_MS_data.csv"}
    /\ steps' = Append(steps, 6)
    /\ main_pc' = "step7"
    /\ UNCHANGED <<wdmsInputs, defined, mpc, plots, plotted, report>>
    /\ UNCHANGED <<wdmsOther, varsDedup, varsClean>>

\* lines 157-163: plot_seds(...) is called
MainPlotSedsCall ==
    /\ main_pc = "step7"
    /\ main_pc' = IF Bound("plot_seds") THEN "in_plot_seds" ELSE "NameError"
    /\ UNCHANGED <<wdmsInputs, defined, mpc, steps, outputs, plots, plotted,
                   report>>
    /\ UNCHANGED <<wdmsOther, varsDedup, varsClean>>

\* line 220: the file fig.savefig writes for an object
SedPng(obj) == obj \o "_SED.png"

\* the rows of merged_WD_MS_data.csv tried: the Object, and whether the try
\* block of lines 181-221 gets to savefig ("ok") or raises on the way
\* ("fail": a spectrum or photometry file is missing, a value does not parse)
MergedRows == [Object : {"J0001", "J0002"}, plot : {"ok", "fail"}]

\* plot_seds, lines 179-223: one row; an exception is swallowed (222-223)
PlotSedsRow ==
    /\ main_pc = "in_plot_seds"
    /\ plotted < Len(merged_rows)
    /\ plots' = IF merged_rows[plotted + 1].plot = "ok"
                THEN plots \cup {SedPng(merged_rows[plotted + 1].Object)}
                ELSE plots
    /\ plotted' = plotted + 1
    /\ UNCHANGED <<wdmsInputs, defined, mpc, main_pc, steps, outputs, report>>
    /\ UNCHANGED <<wdmsOther, varsDedup, varsClean>>

\* lines 165-168: plot_seds has returned; the report
MainReport ==
    /\ main_pc = "in_plot_seds"
    /\ plotted = Len(merged_rows)
    /\ steps' = Append(steps, 7)
    /\ report' = <<"All done", [merged |-> Len(merged_rows)],
                   [plots_generated |-> Len(merged_rows)]>>
    /\ main_pc' = "returned"
    /\ UNCHANGED <<wdmsInputs, defined, mpc, outputs, plots, plotted>>
    /\ UNCHANGED <<wdmsOther, varsDedup, varsClean>>

\* the spectra directories and the photometry file main is tried on
WdmsListings ==
    { <<>>,
      << [base |-> "lte030", variant |-> 1, bt |-> TRUE],
         [base |-> "lte030", variant |-> 2, bt |-> TRUE] >>,
      << [base |-> "lte030", variant |-> 1, bt |-> TRUE],
         [base |-> "lte030", variant |-> 0, bt |-> TRUE] >> }

WdmsPhotTexts ==
    { JoinLines(FileLines(WdHeaderLine, WdHeaderLine + 1, <<"#", "F">>, <<"d">>)) }

IdleWdms ==
    /\ run_as = "idle"
    /\ defined = {}
    /\ mpc = "idle"
    /\ main_pc = "idle"
    /\ base_is_dir = FALSE
    /\ spec_dirs_ok = FALSE
    /\ has_bestfitp = FALSE
    /\ n_csv = 0
    /\ merged_rows = <<>>
    /\ steps = <<>>
    /\ outputs = {}
    /\ plots = {}
    /\ plotted = 0
    /\ report = <<>>

(* Specifications                                                          *)
(***************************************************************************)
InitClassify ==
    /\ data \in Tables
    /\ row = NoRow
    /\ good = FALSE
    /\ std_rows = {}
    /\ plot_rows = {}
    /\ entry_rows = {}
    /\ cpc = "evaluate"
    /\ IdleEvaluate
    /\ IdleExport
    /\ IdleBatches
    /\ IdleDedup
    /\ IdleClean
    /\ IdleWdms

NextClassify == EvaluateCandidate \/ PlotFluxRes \/ BuildEntries

SpecClassify == InitClassify /\ [][NextClassify]_vars

(***************************************************************************)
\* evaluate_candidates run on a base directory with a fresh result directory
InitEvaluate ==
    /\ has_results \in BOOLEAN
    /\ phot_files \in Globs
    /\ classification = <<>>
    /\ good_count = 0
    /\ bad_count = 0
    /\ gc_objects = {}
    /\ bc_objects = {}
    /\ copied = 0
    /\ epc = "start"
    /\ IdleClassify
    /\ IdleExport
    /\ IdleBatches
    /\ IdleDedup
    /\ IdleClean
    /\ IdleWdms

NextEvaluate ==
    \/ EvaluateStart
    \/ ClassifyFile
    \/ PrepareDirs
    \/ CopyFolder
    \/ EvaluateFinish

SpecEvaluate == InitEvaluate /\ [][NextEvaluate]_vars

\* ms_ascii_vosa.py run as a script, or ms_ascii_noUV_VOSA called on a frame
InitExport ==
    /\ entry \in {"main", "call"}
    /\ catalog_exists \in BOOLEAN
    /\ catalog_ext \in Extensions
    /\ catalog \in Catalogs
    /\ chunk_arg \in ChunkArgs
    /\ entry = "call" => catalog_exists /\ catalog_ext = ".csv"
    /\ ~catalog_exists => catalog = <<>> /\ catalog_ext = ".csv"
    /\ catalog_read = FALSE
    /\ df = IF entry = "call" THEN catalog ELSE <<>>
    /\ chunk_size = IF entry = "call" THEN chunk_arg ELSE 0
    /\ outdir_made = FALSE
    /\ out_files = <<>>
    /\ start = 0
    /\ xpc = IF entry = "call" THEN "export" ELSE "main"
    /\ IdleClassify
    /\ IdleEvaluate
    /\ IdleBatches
    /\ IdleDedup
    /\ IdleClean
    /\ IdleWdms

NextExport ==
    \/ MainChecks
    \/ ReadCatalog
    \/ ExportStart
    \/ WriteChunk
    \/ ExportDone

SpecExport == InitExport /\ [][NextExport]_vars

\* write_batches called on a list of entries
InitBatches ==
    /\ entries \in EntryLists
    /\ chunk \in -1..MaxBatch
    /\ unique_objs = <<>>
    /\ batch_files = <<>>
    /\ idx = 0
    /\ wpc = "start"
    /\ IdleClassify
    /\ IdleEvaluate
    /\ IdleExport
    /\ IdleDedup
    /\ IdleClean
    /\ IdleWdms

NextBatches == BatchesStart \/ WriteBatch \/ BatchesDone

SpecBatches == InitBatches /\ [][NextBatches]_vars

\* dedup_theoretical called on a spectra directory
InitDedup ==
    /\ os_name \in {"posix", "nt"}
    /\ listing \in Listings
    /\ spec_dir = DirOf(listing)
    /\ unique = <<>>
    /\ scanned = 0
    /\ grouped = 0
    /\ dpc = "scan"
    /\ IdleClassify
    /\ IdleEvaluate
    /\ IdleExport
    /\ IdleBatches
    /\ IdleClean
    /\ IdleWdms

NextDedup == ScanName \/ ScanDone \/ DedupGroup \/ DedupDone

SpecDedup == InitDedup /\ [][NextDedup]_vars

\* a cleaner applied twice to one photometry file
InitClean ==
    /\ cleaner \in {"process_phot_files", "clean_photometry"}
    /\ phot_text \in FileTexts(IF cleaner = "process_phot_files"
                               THEN PhotHeaderLine ELSE WdHeaderLine)
    /\ orig_text = phot_text
    /\ pass1_text = <<>>
    /\ passes = 0
    /\ rewritten = FALSE
    /\ lpc = "clean"
    /\ IdleClassify
    /\ IdleEvaluate
    /\ IdleExport
    /\ IdleBatches
    /\ IdleDedup
    /\ IdleWdms

NextClean == ProcessPhotFiles \/ CleanPhotometry

SpecClean == InitClean /\ [][NextClean]_vars

\* wdms_data_process.py run as a script, or imported and main() called
InitWdms ==
    /\ run_as \in {"script", "import"}
    /\ defined = {}
    /\ mpc = "defs"
    /\ main_pc = "idle"
    /\ base_is_dir \in BOOLEAN
    /\ spec_dirs_ok \in BOOLEAN
    /\ has_bestfitp \in BOOLEAN
    /\ n_csv \in 0..2
    /\ merged_rows \in UNION { [1..n -> MergedRows] : n \in 0..MaxMerged }
    /\ steps = <<>>
    /\ outputs = {}
    /\ plots = {}
    /\ plotted = 0
    /\ report = <<>>
    /\ os_name \in {"posix", "nt"}
    /\ listing \in WdmsListings
    /\ spec_dir = DirOf(listing)
    /\ unique = <<>>
    /\ scanned = 0
    /\ grouped = 0
    /\ dpc = "idle"
    /\ cleaner = "clean_photometry"
    /\ phot_text \in WdmsPhotTexts
    /\ orig_text = phot_text
    /\ pass1_text = <<>>
    /\ passes = 0
    /\ rewritten = FALSE
    /\ lpc = "idle"
    /\ IdleClassify
    /\ IdleEvaluate
    /\ IdleExport
    /\ IdleBatches

NextWdms ==
    \/ ModuleDefs
    \/ ModuleGuard
    \/ ModuleAfterMain
    \/ ModuleDefPlotSeds
    \/ ImporterCallsMain
    \/ MainArgs
    \/ MainCleanPhotometry
    \/ MainCleanBestfitp
    \/ MainDedupCall
    \/ ScanName
    \/ ScanDone
    \/ DedupGroup
    \/ DedupDone
    \/ MainDedupReturn
    \/ MainResultDir
    \/ MainMergeWd
    \/ MainMergeWdMs
    \/ MainPlotSedsCall
    \/ PlotSedsRow
    \/ MainReport

SpecWdms == InitWdms /\ [][NextWdms]_vars

(* Claims                                                                  *)
(***************************************************************************)

\* the residuals of the rows in S, in row order
ResidualsOf(d, S) ==
    LET o == Ordered(S) IN [j \in 1..Len(o) |-> RelResidual(d, o[j])]

\* C2: an object classified good has a row in results/bestfitp.dat whose
\* Vgfb is a number strictly below 15; no row, a non-numeric Vgfb, a NaN
\* Vgfb or Vgfb >= 15 always give bad.
C2_GoodNeedsVgfbBelowCutoff ==
    (cpc # "evaluate" /\ good) => (row.k = "val" /\ row.n < 15)

C10_SameResidualRows ==
    cpc = "done" => (std_rows = plot_rows /\ plot_rows = entry_rows)

\* C1: evaluate_candidates partitions the objects: every object folder with a
\* photometry file is copied into exactly one of <good_count>_gc/objects and
\* <bad_count>_bc/objects, the folders under each number good_count and
\* bad_count, and the two counts add up to the photometry files found.
C1_Partition ==
    epc = "done" =>
        /\ \A i \in 1..Len(phot_files) :
              LET dir == ObjDir(phot_files[i])
                  inGc == \E c \in gc_objects : c.src = dir
                  inBc == \E c \in bc_objects : c.src = dir
              IN  (inGc \/ inBc) /\ ~(inGc /\ inBc)
        /\ Cardinality(gc_objects) = good_count
        /\ Cardinality(bc_objects) = bad_count
        /\ good_count + bad_count = Len(phot_files)

\* the catalog positions of the rows a file holds
RowsIn(lines) == { lines[j].row : j \in 1..Len(lines) }

\* C3: ms_ascii_noUV_VOSA with chunk_size N >= 1 on R rows writes exactly
\* ceil(R/N) files named 0-N, N-2N, ..., the last ending at R; a file holds
\* at most N objects, and every catalog row is in exactly one file, once, in
\* catalog order.
C3_ChunkFiles ==
    (xpc = "done" /\ chunk_size >= 1) =>
        LET R == Len(df)
            N == chunk_size
            K == (R + N - 1) \div N
        IN  /\ Cardinality(DOMAIN out_files) = K
            /\ DOMAIN out_files =
                  { <<k * N, IF (k + 1) * N < R THEN (k + 1) * N ELSE R>> :
                      k \in 0..(K - 1) }
            /\ \A n \in DOMAIN out_files :
                  LET lines == out_files[n]
                  IN  /\ Cardinality(RowsIn(lines)) <= N
                      /\ RowsIn(lines) = n[1]..(n[2] - 1)
                      /\ \A j, k \in 1..Len(lines) :
                            j < k => lines[j].row <= lines[k].row
                      /\ \A j \in 1..Len(lines) :
                            lines[j].obj = Sanitise(df[lines[j].row + 1].Name)
            /\ \A i \in 0..(R - 1) :
                  /\ Cardinality({ n \in DOMAIN out_files :
                                     i \in RowsIn(out_files[n]) }) = 1
                  /\ \A n \in DOMAIN out_files :
                        i \in RowsIn(out_files[n]) =>
                            Cardinality({ j \in 1..Len(out_files[n]) :
                                            out_files[n][j].row = i }) = NFilters

\* C3 witness: several files, the last one shorter than the chunk size
C3_Witness ==
    /\ xpc = "done"
    /\ chunk_size >= 2
    /\ Cardinality(DOMAIN out_files) >= 2
    /\ Len(df) % chunk_size # 0

C7_BadInput == ~catalog_exists \/ chunk_arg <= 0 \/ chunk_arg > 1000
C7_NothingDone == ~catalog_read /\ ~outdir_made /\ DOMAIN out_files = {}
C7_Ended == xpc \in {"exit", "done", "ValueError"}
C7_ExportRan ==
    /\ xpc = "done"
    /\ catalog_read
    /\ outdir_made
    /\ chunk_size = chunk_arg
    /\ Cardinality(DOMAIN out_files) =
          (Len(catalog) + chunk_arg - 1) \div chunk_arg

\* C7 as stated: main exits on a missing catalog or a chunk <= 0 or > 1000
\* having read nothing and written nothing, and for 1 <= chunk <= 1000 and
\* an existing catalog the export runs with exactly that chunk size.
C7_Original ==
    entry = "main" =>
        /\ C7_BadInput => (C7_NothingDone /\ xpc \in {"main", "exit"})
        /\ (~C7_BadInput /\ C7_Ended) => C7_ExportRan

\* C7 amended: as above, but the export runs only for a catalog whose
\* extension read_catalog loads; for any other extension main ends in
\* read_catalog's ValueError with nothing written.
C7_Amended ==
    entry = "main" =>
        /\ C7_BadInput => (C7_NothingDone /\ xpc \in {"main", "exit"})
        /\ (~C7_BadInput /\ C7_Ended) =>
              IF catalog_ext \in {".pkl", ".pickle", ".parquet", ".feather",
                                  ".ft", ".csv", ".tsv", ".txt"}
              THEN C7_ExportRan
              ELSE xpc = "ValueError" /\ C7_NothingDone

\* C7 witness: an existing catalog rejected for a chunk above the limit
C7_Witness ==
    /\ entry = "main"
    /\ xpc = "exit"
    /\ catalog_exists
    /\ Len(catalog) > 0
    /\ chunk_arg = 1001

\* the objects with a row in a file
ObjectsIn(rows) == { rows[j].object : j \in 1..Len(rows) }

\* C4: write_batches with chunk >= 1 and U distinct objects writes exactly
\* ceil(U/chunk) files 1.txt ... k.txt; a file holds the rows of at most
\* chunk objects, and all rows of an object are in exactly one file, each
\* row once.
C4_BatchFiles ==
    (wpc \in {"done", "KeyError"} /\ chunk >= 1) =>
        LET U == Cardinality(ObjectsIn(entries))
            K == (U + chunk - 1) \div chunk
        IN  /\ DOMAIN batch_files = 1..K
            /\ \A f \in 1..Len(batch_files) :
                  /\ Cardinality(ObjectsIn(batch_files[f])) <= chunk
                  /\ \A j \in 1..Len(batch_files[f]) :
                        batch_files[f][j] \in { entries[e] : e \in 1..Len(entries) }
            /\ \A o \in ObjectsIn(entries) :
                  \E f \in 1..Len(batch_files) :
                     /\ \A g \in 1..Len(batch_files) :
                           o \in ObjectsIn(batch_files[g]) => g = f
                     /\ \A e \in 1..Len(entries) :
                           entries[e].object = o =>
                              Cardinality({ j \in 1..Len(batch_files[f]) :
                                  batch_files[f][j] = entries[e] }) = 1

\* C4 witness: two files or more, and an object with rows that are apart
C4_Witness ==
    /\ wpc = "done"
    /\ Len(batch_files) >= 2
    /\ \E i, j \in 1..Len(entries) :
          /\ j > i + 1
          /\ entries[i].object = entries[j].object
          /\ entries[i + 1].object # entries[i].object

\* C5: after dedup_theoretical, whatever the order of the listing, each group
\* of BT-NextGen files with the same token-free name has exactly one file
\* left, it carries the token-free name, no BT-NextGen file with an a+-x
\* token is left, and the other files are untouched.
C5_OnePerGroup ==
    dpc = "done" =>
        /\ \A j \in 1..Len(listing) :
              LET f == listing[j]
              IN  IF f.bt
                  THEN /\ Cleaned(f) \in DOMAIN spec_dir
                       /\ Cardinality({ n \in DOMAIN spec_dir :
                                          n.bt /\ Cleaned(n) = Cleaned(f) }) = 1
                  ELSE f \in DOMAIN spec_dir /\ spec_dir[f] = f
        /\ \A n \in DOMAIN spec_dir : n.bt => n.variant = 0

\* the lines of a text, without their line feeds
C6_Lines(text) == Splitlines(text)
C6_Target == IF cleaner = "process_phot_files" THEN 41 ELSE 37

\* new is old without its leading '#' characters
C6_Stripped(old, new) ==
    /\ new = <<>> \/ new[1] # "#"
    /\ \E k \in 0..Len(old) :
          /\ \A j \in 1..k : old[j] = "#"
          /\ new = SubSeq(old, k + 1, Len(old))

\* C6: a cleaner changes only its target line (41 for process_phot_files, 37
\* for clean_photometry): that line loses its leading '#' characters, every
\* other line keeps its content and place, a file with fewer lines than the
\* target is not rewritten, and a second application leaves the file as the
\* first one left it.
C6_OnlyTargetLine ==
    passes >= 1 =>
        LET old == C6_Lines(orig_text)
            new == C6_Lines(pass1_text)
            t == C6_Target
        IN  /\ IF Len(old) < t
               THEN pass1_text = orig_text /\ (passes = 1 => ~rewritten)
               ELSE /\ \A j \in 1..Len(old) : j # t =>
                          j <= Len(new) /\ new[j] = old[j]
                    /\ Len(new) <= Len(old)
                    /\ IF t <= Len(new) THEN C6_Stripped(old[t], new[t])
                       ELSE t = Len(old) /\ C6_Stripped(old[t], <<>>)
            /\ passes = 2 => phot_text = pass1_text

\* C6 witness: a target line with two leading '#', followed by a data line
\* that starts with '#', cleaned twice
C6_Witness ==
    /\ passes = 2
    /\ LET old == C6_Lines(orig_text)
           t == C6_Target
       IN  /\ Len(old) > t
           /\ old[t] = <<"#", "#", "F">>
           /\ old[t + 1] = <<"#", "d">>
           /\ C6_Lines(phot_text)[t] = <<"F">>

\* valid inputs: the directories exist, a results/bestfitp.dat is there, the
\* MS folder has its one CSV, and no spectrum is renamed onto an existing file
C8_ValidInputs ==
    /\ base_is_dir
    /\ spec_dirs_ok
    /\ has_bestfitp
    /\ n_csv = 1
    /\ dpc # "FileExistsError"

\* C8: run as a script with valid inputs, wdms_data_process.py executes its
\* seven steps in order and reaches the 'All done' report: every function
\* main calls, plot_seds at step 7 included, is defined when main calls it.
C8_ScriptReachesAllDone ==
    (run_as = "script" /\ C8_ValidInputs) =>
        /\ main_pc # "NameError"
        /\ main_pc = "step7" => "plot_seds" \in defined
        /\ mpc = "end" =>
              /\ steps = <<1, 2, 3, 4, 5, 6, 7>>
              /\ report # <<>> /\ report[1] = "All done"

\* a filter's photometry is missing in a catalog row: the magnitude or its
\* error is NaN, or the column is not in the catalog
C11_Missing(r, f) ==
    \E c \in {FILTER_COLUMNS[f].mag, FILTER_COLUMNS[f].err} :
        c \notin DOMAIN r.cells \/ r.cells[c] = NaN

\* C11: every file holds, for each of its rows, one line per entry of
\* FILTER_COLUMNS in table order; a line whose magnitude or error is missing
\* (NaN, or the column absent) has flux, error and pntopts all "---", any
\* other line has the catalog values and the table's pntopts.
C11_FilterLines ==
    \A n \in DOMAIN out_files :
        LET lines == out_files[n]
        IN  /\ Len(lines) = NFilters * (n[2] - n[1])
            /\ \A j \in 1..Len(lines) :
                  LET i == n[1] + ((j - 1) \div NFilters)
                      f == ((j - 1) % NFilters) + 1
                      r == df[i + 1]
                      fc == FILTER_COLUMNS[f]
                  IN  /\ lines[j].row = i
                      /\ lines[j].filt = fc.filt
                      /\ IF C11_Missing(r, f)
                         THEN /\ lines[j].flux = "---"
                              /\ lines[j].error = "---"
                              /\ lines[j].pntopts = "---"
                         ELSE /\ lines[j].flux = Str(r.cells[fc.mag])
                              /\ lines[j].error = Str(r.cells[fc.err])
                              /\ lines[j].pntopts = fc.pntopts

\* C12: when main has printed its report, the number it gives as "Plots
\* generated" is the number of <obj>_SED.png files plot_seds wrote, also
\* when plotting some object failed and the exception was swallowed.
C12_PlotsGeneratedIsPlots ==
    report # <<>> => report[3].plots_generated = Cardinality(plots)

====
